---- MODULE Spec2Model ----
(***************************************************************************)
(* A model of the DNS codec core of dns-parser: the name codec             *)
(* (src/src/name.rs), the RDATA union and its A, TXT and NSEC kinds        *)
(* (src/src/rdata/), and the message builder (src/src/builder.rs).         *)
(*                                                                         *)
(* Byte buffers are sequences of integers 0..255.  A Rust index i of a     *)
(* slice s is the TLA+ index i+1; the Rust range s[a..b] is                *)
(* SubSeq(s, a+1, b).  Every index and range the code takes is guarded by  *)
(* the bound check Rust performs, and a failed check is the outcome        *)
(* "panic".                                                                *)
(***************************************************************************)
EXTENDS Integers, Sequences, FiniteSets, TLC

VARIABLES
    name,         \* the dotted string given to Name::from_string (round trip only)
    data,         \* scan's argument `data`
    original,     \* scan's argument `original`
    parse_data,   \* scan's local `parse_data`
    pos,          \* scan's local `pos`
    return_pos,   \* scan's local `return_pos`: None, or the position of the first pointer
    largest_pos,  \* scan's local `largest_pos`
    byte,         \* scan's local `byte`
    labels,       \* Name.labels of the returned Name
    str_val,      \* Name.str_val of the returned Name
    ts_data,      \* to_string's local `data`
    ts_pos,       \* to_string's local `pos`
    val,          \* to_string's local `val`
    result,       \* "none" while running, then "Ok", an Error, or "panic"
    pc,           \* the position of the call
    hops,         \* history: the target offsets of the pointers followed, in order
                  \* (the first len(original) + 1 of them)
    followed,     \* history: the positions in `original` of the pointers followed
    rd_src,       \* how the RData value was made: "parse", "new_a", "from_str"
    rd_typ,       \* the Type given to RData::parse
    rd_in,        \* the bytes given to RData::parse, or the string given to from_str
    rd_val,       \* the RData value (or the Err) that came out
    rd_code,      \* what type_code() returned on rd_val
    rd_len,       \* what rdata_length() returned on rd_val
    rd_out,       \* what to_bytes() returned on rd_val
    rd_segs,      \* what iter() yielded on rd_val, a TXT record
    rd_back,      \* what parsing rd_out under the type of rd_val returned
    rd_back_segs, \* what iter() yielded on rd_back
    head,         \* Builder.head
    questions,    \* Builder.questions
    answers,      \* Builder.answers
    nameservers,  \* Builder.nameservers
    additional,   \* Builder.additional
    b_out,        \* what the last call of build returned
    b_panic,      \* "none", or the panic that ended the builder's thread
    b_calls       \* the number of calls made on the builder

scanVars == <<name, data, original, parse_data, pos, return_pos, largest_pos, byte,
              labels, str_val, ts_data, ts_pos, val, result, pc, hops, followed>>

rdVars == <<rd_src, rd_typ, rd_in, rd_val, rd_code, rd_len, rd_out, rd_segs,
            rd_back, rd_back_segs>>

bVars == <<head, questions, answers, nameservers, additional, b_out, b_panic,
           b_calls>>

vars == <<scanVars, rdVars, bVars>>

(***************************************************************************)
(* Bounds of the model.                                                    *)
(***************************************************************************)
\* the longest `original` buffer scanned
MaxLen == 4
\* the longest `data` buffer that is not a slice of `original`
MaxForeign == 1
\* the most characters of a dotted name given to Name::from_string (names
\* of one label of 62 and of 63 bytes are added to these)
MaxNameChars == 4
\* the longest RDATA byte string given to RData::parse
MaxRData == 4
\* the longest string given to txt::Record::from_str, apart from the long ones
MaxStr == 3
\* the most calls made on one builder
MaxCalls == 3

\* The byte values buffers are drawn from: the terminator 0; 1 and 2 (label
\* lengths, pointer offsets, ASCII content); 'a' (ASCII content, and the
\* reserved introducer pattern 01); 128 (non-ASCII content, and the reserved
\* introducer pattern 10); 192 (0xC0, the first byte of a pointer).
Bytes == {0, 1, 2, 97, 128, 192}

None == -1

\* the RData variables before a value is made, and before a call is made
NoValue == [tag |-> "none"]
NotCalled == [res |-> "none"]

\* no builder has been made
BIdle ==
    /\ head = <<>>
    /\ questions = <<>>
    /\ answers = <<>>
    /\ nameservers = <<>>
    /\ additional = <<>>
    /\ b_out = NotCalled
    /\ b_panic = "none"
    /\ b_calls = 0

\* no RData value has been made
RDIdle ==
    /\ rd_src = "none"
    /\ rd_typ = "none"
    /\ rd_in = <<>>
    /\ rd_val = NoValue
    /\ rd_code = NotCalled
    /\ rd_len = NotCalled
    /\ rd_out = NotCalled
    /\ rd_segs = NotCalled
    /\ rd_back = NoValue
    /\ rd_back_segs = NotCalled

BoundedSeq(S, n) == UNION {[1..k -> S] : k \in 0..n}

(***************************************************************************)
(* Rust slice primitives.                                                  *)
(***************************************************************************)
\* s[i] is in bounds
InBounds(s, i) == 0 <= i /\ i < Len(s)

\* s[a..b] is in bounds
RangeOk(s, a, b) == 0 <= a /\ a <= b /\ b <= Len(s)

\* s[i]
At(s, i) == s[i + 1]

\* s[a..b]
Slice(s, a, b) == SubSeq(s, a + 1, b)

\* s[a..]
SliceFrom(s, a) == SubSeq(s, a + 1, Len(s))

\* <[u8]>::is_ascii
IsAscii(s) == \A i \in 1..Len(s) : s[i] < 128

\* byte & 0b1100_0000 == 0b1100_0000
IsPointerByte(b) == (b \div 64) = 3

\* byte & 0b1100_0000 == 0
IsLabelByte(b) == (b \div 64) = 0

\* BigEndian::read_u16(&s[p..p+2]) & !0b1100_0000_0000_0000
ReadOffset(s, p) == (At(s, p) * 256 + At(s, p + 1)) % 16384

\* std::str::from_utf8 succeeds on s: one to four byte sequences, each lead
\* byte followed by its continuation bytes (0x80..0xBF)
RECURSIVE IsUtf8(_)
IsUtf8(s) ==
    IF s = <<>> THEN TRUE
    ELSE LET b == s[1]
             n == IF b < 128 THEN 1
                  ELSE IF b >= 194 /\ b <= 223 THEN 2
                  ELSE IF b >= 224 /\ b <= 239 THEN 3
                  ELSE IF b >= 240 /\ b <= 244 THEN 4
                  ELSE 0
         IN  /\ n > 0
             /\ Len(s) >= n
             /\ \A i \in 2..n : s[i] >= 128 /\ s[i] <= 191
             /\ IsUtf8(SubSeq(s, n + 1, Len(s)))

(***************************************************************************)
(* Name::scan, src/src/name.rs lines 31-98.                                *)
(***************************************************************************)
\* line 47: the two bytes of a pointer do not fit
PointerEOF(pd, p) == Len(pd) < p + 2

\* OffsetEOF with the comparison loosened to `off > original.len()`
OffsetEOF_Inclusive(off, orig) == off > Len(orig)

\* line 52: the pointer's target is outside `original`
OffsetEOF(off, orig) == off >= Len(orig)

\* NotBackwards with the comparison loosened to `off > largest_pos`
NotBackwards_Loose(off, largest) == off > largest

\* line 64: the pointer does not go strictly backwards
NotBackwards(off, largest) == off >= largest

\* NextLargest with the assignment `largest_pos = off` left out
NextLargest_Stale(off, largest) == largest

\* line 67: the bound the next pointer must stay below
NextLargest(off, largest) == off

\* LabelEOF with the check off by one
LabelEOF_OffByOne(pd, end) == Len(pd) + 1 < end

\* line 72: the label's content does not fit
LabelEOF(pd, end) == Len(pd) < end

\* line 79: nothing follows the label
AfterLabelEOF(pd, p) == Len(pd) <= p

\* What one iteration of the loop leaves: res is "none" when the loop goes
\* on, else the error returned ("panic" for a failed bound check); hop is the
\* offset of the pointer followed, None when the iteration followed none.
Outcome(res, pd, p, rp, lp, b, hop) ==
    [res |-> res, parse_data |-> pd, pos |-> p, return_pos |-> rp,
     largest_pos |-> lp, byte |-> b, hop |-> hop]

\* line 85: byte = parse_data[pos]
ReadByte(pd, p, rp, lp, b, hop) ==
    IF InBounds(pd, p)
    THEN Outcome("none", pd, p, rp, lp, At(pd, p), hop)
    ELSE Outcome("panic", pd, p, rp, lp, b, hop)

\* lines 46-69: the branch of a compression pointer
ScanPointer(pd, p, rp, lp, b, orig) ==
    IF PointerEOF(pd, p) THEN Outcome("UnexpectedEOF", pd, p, rp, lp, b, None)
    ELSE IF ~RangeOk(pd, p, p + 2) THEN Outcome("panic", pd, p, rp, lp, b, None)
    ELSE LET off == ReadOffset(pd, p)
             rp2 == IF rp = None THEN p ELSE rp
         IN  IF OffsetEOF(off, orig)
             THEN Outcome("UnexpectedEOF", pd, p, rp, lp, b, None)
             ELSE IF NotBackwards(off, lp)
             THEN Outcome("BadPointer", pd, p, rp2, lp, b, None)
             ELSE IF ~RangeOk(orig, off, Len(orig))
             THEN Outcome("panic", pd, p, rp2, lp, b, None)
             ELSE ReadByte(SliceFrom(orig, off), 0, rp2, NextLargest(off, lp), b, off)

\* lines 70-81: the branch of a literal label
ScanLabel(pd, p, rp, lp, b) ==
    LET end == p + b + 1
    IN  IF LabelEOF(pd, end) THEN Outcome("UnexpectedEOF", pd, p, rp, lp, b, None)
        ELSE IF ~RangeOk(pd, p + 1, end) THEN Outcome("panic", pd, p, rp, lp, b, None)
        ELSE IF ~IsAscii(Slice(pd, p + 1, end))
        THEN Outcome("LabelIsNotAscii", pd, p, rp, lp, b, None)
        ELSE IF AfterLabelEOF(pd, end)
        THEN Outcome("UnexpectedEOF", pd, end, rp, lp, b, None)
        ELSE ReadByte(pd, end, rp, lp, b, None)

\* lines 43-85: one iteration of `while byte != 0`
ScanIter(pd, p, rp, lp, b, orig) ==
    IF Len(pd) <= p THEN Outcome("UnexpectedEOF", pd, p, rp, lp, b, None)
    ELSE IF IsPointerByte(b) THEN ScanPointer(pd, p, rp, lp, b, orig)
    ELSE IF IsLabelByte(b) THEN ScanLabel(pd, p, rp, lp, b)
    ELSE Outcome("UnknownLabelFormat", pd, p, rp, lp, b, None)

\* ViewEnd with return_pos ignored: the view always ends past `pos`
ViewEnd_Pos(rp, p) == p + 1

\* lines 87-97: the end of the view: past the first pointer when one was
\* followed, else past the terminator
ViewEnd(rp, p) == IF rp # None THEN rp + 2 ELSE p + 1

\* s is a suffix of t
IsSuffixOf(s, t) == Len(s) <= Len(t) /\ s = SliceFrom(t, Len(t) - Len(s))

\* the position in `original` of parse_data[pos], when parse_data is a suffix
AbsPos(orig, pd, p) == Len(orig) - Len(pd) + p

\* lines 32-41: the locals are set up and the first byte is read
ScanBegin ==
    /\ pc = "scan"
    /\ parse_data' = data
    /\ return_pos' = None
    /\ pos' = 0
    /\ IF Len(data) <= 0
       THEN /\ result' = "UnexpectedEOF"
            /\ pc' = "done"
            /\ UNCHANGED <<largest_pos, byte>>
       ELSE /\ largest_pos' = Len(original)
            /\ byte' = At(data, 0)
            /\ pc' = "loop"
            /\ UNCHANGED result
    /\ UNCHANGED <<name, data, original, labels, str_val, ts_data, ts_pos, val,
                   hops, followed>>
    /\ UNCHANGED <<rdVars, bVars>>

\* lines 42-86: one iteration of the loop
ScanStep ==
    /\ pc = "loop"
    /\ byte # 0
    /\ LET o == ScanIter(parse_data, pos, return_pos, largest_pos, byte, original)
       IN  /\ parse_data' = o.parse_data
           /\ pos' = o.pos
           /\ return_pos' = o.return_pos
           /\ largest_pos' = o.largest_pos
           /\ byte' = o.byte
           /\ result' = o.res
           /\ pc' = IF o.res = "none" THEN "loop" ELSE "done"
           /\ hops' = IF o.hop # None /\ Len(hops) <= Len(original)
                      THEN Append(hops, o.hop)
                      ELSE hops
           /\ followed' = IF o.hop # None /\ IsSuffixOf(parse_data, original)
                          THEN followed \cup {AbsPos(original, parse_data, pos)}
                          ELSE followed
    /\ UNCHANGED <<name, data, original, labels, str_val, ts_data, ts_pos, val>>
    /\ UNCHANGED <<rdVars, bVars>>

\* lines 87-97: the loop has met the terminator; the view is cut out of
\* `data` and handed to to_string
ScanReturn ==
    /\ pc = "loop"
    /\ byte = 0
    /\ LET end == ViewEnd(return_pos, pos)
       IN  IF RangeOk(data, 0, end)
           THEN /\ labels' = Slice(data, 0, end)
                /\ ts_data' = Slice(data, 0, end)
                /\ ts_pos' = 0
                /\ val' = <<>>
                /\ pc' = "to_string"
                /\ UNCHANGED result
           ELSE /\ result' = "panic"
                /\ pc' = "done"
                /\ UNCHANGED <<labels, ts_data, ts_pos, val>>
    /\ UNCHANGED <<name, data, original, parse_data, pos, return_pos, largest_pos,
                   byte, str_val, hops, followed>>
    /\ UNCHANGED <<rdVars, bVars>>

(***************************************************************************)
(* Name::to_string, src/src/name.rs lines 123-152.  The recursive call of  *)
(* line 138 is the last thing its caller does and its result is appended   *)
(* to the caller's val, so the recursion is the loop going on at position  *)
(* 0 of original[off..] with the same val.                                 *)
(***************************************************************************)
Dot == 46

\* lines 135-137 and 141-143: the separator written before a label or a pointer
Separator(p) == IF p # 0 THEN <<Dot>> ELSE <<>>

\* What one iteration of to_string's loop leaves: res is "none" when the loop
\* goes on, "Ok" when val is returned, "panic" for a failed bound check or unwrap.
TsOutcome(res, d, p, v) == [res |-> res, data |-> d, pos |-> p, val |-> v]

\* lines 129-150: one iteration of `loop`
ToStringIter(d, p, v, orig) ==
    IF ~InBounds(d, p) THEN TsOutcome("panic", d, p, v)
    ELSE LET b == At(d, p)
         IN  IF b = 0 THEN TsOutcome("Ok", d, p, v)
             ELSE IF IsPointerByte(b)
             THEN IF ~RangeOk(d, p, p + 2) THEN TsOutcome("panic", d, p, v)
                  ELSE LET off == ReadOffset(d, p)
                       IN  IF ~RangeOk(orig, off, Len(orig))
                           THEN TsOutcome("panic", d, p, v)
                           ELSE TsOutcome("none", SliceFrom(orig, off), 0,
                                          v \o Separator(p))
             ELSE IF IsLabelByte(b)
             THEN LET end == p + b + 1
                  IN  IF ~RangeOk(d, p + 1, end) THEN TsOutcome("panic", d, p, v)
                      ELSE IF ~IsUtf8(Slice(d, p + 1, end))
                      THEN TsOutcome("panic", d, p, v)
                      ELSE TsOutcome("none", d, end,
                                     v \o Separator(p) \o Slice(d, p + 1, end))
             ELSE TsOutcome("panic", d, p, v)

\* lines 128-151, and lines 88-96 where scan stores the string in the Name
ToStringStep ==
    /\ pc = "to_string"
    /\ LET o == ToStringIter(ts_data, ts_pos, val, original)
       IN  /\ ts_data' = o.data
           /\ ts_pos' = o.pos
           /\ val' = o.val
           /\ str_val' = IF o.res = "Ok" THEN o.val ELSE str_val
           /\ result' = IF o.res = "none" THEN result ELSE o.res
           /\ pc' = IF o.res = "none" THEN "to_string" ELSE "done"
    /\ UNCHANGED <<name, data, original, parse_data, pos, return_pos, largest_pos,
                   byte, labels, hops, followed>>
    /\ UNCHANGED <<rdVars, bVars>>

(***************************************************************************)
(* The scan of one pair of buffers.                                        *)
(***************************************************************************)
\* s[a..b] for every a <= b <= len
Slices(s) == {Slice(s, a, b) : a \in 0..Len(s), b \in 0..Len(s)}

\* no call of the name codec is under way
Idle ==
    /\ parse_data = <<>>
    /\ pos = 0
    /\ return_pos = None
    /\ largest_pos = 0
    /\ byte = 0
    /\ labels = <<>>
    /\ str_val = <<>>
    /\ ts_data = <<>>
    /\ ts_pos = 0
    /\ val = <<>>
    /\ result = "none"
    /\ hops = <<>>
    /\ followed = {}

Init ==
    /\ name = <<>>
    /\ original \in BoundedSeq(Bytes, MaxLen)
    /\ data \in Slices(original) \cup BoundedSeq(Bytes, MaxForeign)
    /\ pc = "scan"
    /\ Idle
    /\ RDIdle
    /\ BIdle

Next == ScanBegin \/ ScanStep \/ ScanReturn \/ ToStringStep

Spec == Init /\ [][Next]_vars

\* the scheduling of a call: a running call takes its next step
FairSpec == Spec /\ WF_vars(Next)

(***************************************************************************)
(* Name::from_string and Name::to_bytes, src/src/name.rs lines 100-116.    *)
(* A string is the sequence of the bytes of its UTF-8 encoding.            *)
(***************************************************************************)
\* line 109: assert!(part.len() < 63)
LabelLimit == 63

\* str::split('.'): the parts of s between the dots, one more than the dots
RECURSIVE Split(_)
Split(s) ==
    IF \A i \in 1..Len(s) : s[i] # Dot THEN <<s>>
    ELSE LET i == CHOOSE k \in 1..Len(s) :
                      s[k] = Dot /\ \A j \in 1..k - 1 : s[j] # Dot
         IN  <<SubSeq(s, 1, i - 1)>> \o Split(SubSeq(s, i + 1, Len(s)))

\* EncodeLabel with the length byte left out
EncodeLabel_NoLength(part) == part

\* lines 110-112: the length byte of a part, then its bytes
EncodeLabel(part) == <<Len(part)>> \o part

RECURSIVE EncodeParts(_)
EncodeParts(parts) ==
    IF parts = <<>> THEN <<>>
    ELSE EncodeLabel(parts[1]) \o EncodeParts(Tail(parts))

\* lines 106-116: Name::to_bytes of a Name whose str_val is s; "panic" when
\* the assertion of line 109 fails
ToBytes(s) ==
    LET parts == Split(s)
    IN  IF \E i \in 1..Len(parts) : ~(Len(parts[i]) < LabelLimit)
        THEN [res |-> "panic", bytes |-> <<>>]
        ELSE [res |-> "Ok", bytes |-> EncodeParts(parts) \o <<0>>]

\* lines 100-116, and the call of scan on the encoded bytes as both `data`
\* and `original`
Encode ==
    /\ pc = "encode"
    /\ LET e == ToBytes(name)
       IN  IF e.res = "Ok"
           THEN /\ data' = e.bytes
                /\ original' = e.bytes
                /\ pc' = "scan"
                /\ UNCHANGED result
           ELSE /\ result' = "panic"
                /\ pc' = "done"
                /\ UNCHANGED <<data, original>>
    /\ UNCHANGED <<name, parse_data, pos, return_pos, largest_pos, byte, labels,
                   str_val, ts_data, ts_pos, val, hops, followed>>
    /\ UNCHANGED <<rdVars, bVars>>

(***************************************************************************)
(* The round trip of one dotted name.                                      *)
(***************************************************************************)
\* The characters names are drawn from: 'a', 'b', the dot, and the two-byte
\* character U+00E9.
NameChars == {<<97>>, <<98>>, <<Dot>>, <<195, 169>>}

RECURSIVE Flatten(_)
Flatten(ss) == IF ss = <<>> THEN <<>> ELSE ss[1] \o Flatten(Tail(ss))

Repeat(b, n) == [i \in 1..n |-> b]

Names ==
    {Flatten(cs) : cs \in BoundedSeq(NameChars, MaxNameChars)}
        \cup {Repeat(97, LabelLimit - 1), Repeat(97, LabelLimit),
              Repeat(97, LabelLimit - 1) \o <<Dot, 98>>}

InitRoundTrip ==
    /\ name \in Names
    /\ data = <<>>
    /\ original = <<>>
    /\ pc = "encode"
    /\ Idle
    /\ RDIdle
    /\ BIdle

NextRoundTrip == Encode \/ ScanBegin \/ ScanStep \/ ScanReturn \/ ToStringStep

SpecRoundTrip == InitRoundTrip /\ [][NextRoundTrip]_vars

(***************************************************************************)
(* The RDATA union, src/src/rdata/mod.rs, and its kinds A                  *)
(* (src/src/rdata/a.rs), TXT (src/src/rdata/txt.rs) and NSEC               *)
(* (src/src/rdata/nsec.rs).  An RData value is a record with a tag; the    *)
(* result of a decoder is an RData value, [tag |-> "Err"] or               *)
(* [tag |-> "panic"].                                                      *)
(***************************************************************************)
\* the record types: one per record module of rdata/mod.rs lines 5-27
Types == {"A", "NS", "MF", "CNAME", "SOA", "MB", "MG", "MR", "NULL", "WKS", "PTR",
          "HINFO", "MINFO", "MX", "TXT", "AAAA", "SRV", "OPT", "NSEC"}

\* the kinds RData::parse dispatches to whose decoders are other files
OtherKinds == {"AAAA", "CNAME", "NS", "MX", "PTR", "SOA", "SRV"}

Err(e) == [tag |-> "Err", err |-> e]
Panic(what) == [tag |-> "panic", what |-> what]
Returned(v) == [res |-> "Ok", v |-> v]
Panicked == [res |-> "panic"]

\* A u32 is the pair of its high and low 16 bits; an Ipv4Addr is its
\* four octets.
\* BigEndian::read_u32
ReadU32(b) == <<b[1] * 256 + b[2], b[3] * 256 + b[4]>>

\* Ipv4Addr::from(u32)
AddrFromU32(n) == <<n[1] \div 256, n[1] % 256, n[2] \div 256, n[2] % 256>>

\* u32::from(Ipv4Addr)
U32FromAddr(a) == <<a[1] * 256 + a[2], a[3] * 256 + a[4]>>

\* u32::to_be_bytes
ToBeBytes(n) == <<n[1] \div 256, n[1] % 256, n[2] \div 256, n[2] % 256>>

\* a.rs lines 13-20: a::Record::parse
AParse(rdata) ==
    IF Len(rdata) # 4 THEN Err("WrongRdataLength")
    ELSE [tag |-> "A", addr |-> AddrFromU32(ReadU32(rdata))]

\* a.rs lines 22-24: a::Record::length
ALength(v) == 4

\* a.rs lines 26-29: a::Record::to_bytes
AToBytes(v) == ToBeBytes(U32FromAddr(v.addr))

\* nsec.rs lines 8-10: nsec::Record::parse
NsecParse(rdata) == Panic("not implemented")

\* txt.rs line 3
SEGMENT_LENGTH == 255

\* Loops are run by doubling: a While operator with fuel k runs up to 2^k
\* iterations of its body and stops as soon as the loop's condition fails.
\* Fuel(n) is a k with 2^k >= n; each loop below consumes at least one byte
\* of its input per iteration, so Fuel of the input's length runs it to its end.
RECURSIVE Fuel(_)
Fuel(n) == IF n <= 1 THEN 0 ELSE 1 + Fuel((n + 1) \div 2)

\* txt.rs lines 45-53: the body of the loop of from_str; st holds the locals
\* `pos` and `result`
FromStrBody(s, st) ==
    IF Len(s) - st.pos >= 256
    THEN [pos |-> st.pos + SEGMENT_LENGTH,
          result |-> st.result \o <<SEGMENT_LENGTH % 256>>
                         \o Slice(s, st.pos, st.pos + SEGMENT_LENGTH)]
    ELSE [pos |-> st.pos + (Len(s) - st.pos),
          result |-> st.result \o <<(Len(s) - st.pos) % 256>>
                         \o Slice(s, st.pos, Len(s))]

\* txt.rs line 44: while pos < byte_len
RECURSIVE FromStrWhile(_, _, _)
FromStrWhile(s, st, k) ==
    IF ~(st.pos < Len(s)) THEN st
    ELSE IF k = 0 THEN FromStrBody(s, st)
    ELSE FromStrWhile(s, FromStrWhile(s, st, k - 1), k - 1)

\* txt.rs lines 38-57: txt::Record::from_str
FromStr(s) ==
    [tag |-> "TXT",
     bytes |-> FromStrWhile(s, [pos |-> 0, result |-> <<>>], Fuel(Len(s))).result]

\* txt.rs line 74: the declared segment fits in what is left
TxtSegmentFits(len, rdlen, p) == ~(len < rdlen + p)

\* txt.rs lines 72-77: the body of the loop of parse; st holds the local
\* `pos`, and whether the loop has returned the error
TxtParseBody(rdata, st) ==
    LET rdlen == At(rdata, st.pos)
    IN  IF ~TxtSegmentFits(Len(rdata), rdlen, st.pos + 1)
        THEN [pos |-> st.pos + 1, err |-> TRUE]
        ELSE [pos |-> st.pos + 1 + rdlen, err |-> FALSE]

\* txt.rs line 71: while pos < len
RECURSIVE TxtParseWhile(_, _, _)
TxtParseWhile(rdata, st, k) ==
    IF st.err \/ ~(st.pos < Len(rdata)) THEN st
    ELSE IF k = 0 THEN TxtParseBody(rdata, st)
    ELSE TxtParseWhile(rdata, TxtParseWhile(rdata, st, k - 1), k - 1)

\* txt.rs lines 64-82: txt::Record::parse
TxtParse(rdata) ==
    IF Len(rdata) < 1 THEN Err("WrongRdataLength")
    ELSE IF TxtParseWhile(rdata, [pos |-> 0, err |-> FALSE], Fuel(Len(rdata))).err
    THEN Err("WrongRdataLength")
    ELSE [tag |-> "TXT", bytes |-> rdata]

\* txt.rs lines 84-86: txt::Record::length, `self.bytes.len() as u16`
TxtLength(v) == Len(v.bytes) % 65536

\* txt.rs lines 88-90: txt::Record::to_bytes
TxtToBytes(v) == v.bytes

\* txt.rs lines 17-26: RecordIter::next; st holds the iterator's `bytes`, the
\* segments it has returned, and whether split_at has panicked (the declared
\* length being more than what is left)
IterNext(st) ==
    LET len == At(st.bytes, 0)
    IN  IF len > Len(st.bytes) - 1
        THEN [bytes |-> st.bytes, segs |-> st.segs, panicked |-> TRUE]
        ELSE [bytes |-> SliceFrom(st.bytes, 1 + len),
              segs |-> Append(st.segs, Slice(st.bytes, 1, 1 + len)),
              panicked |-> FALSE]

\* txt.rs line 18: next() returns Some while bytes are left
RECURSIVE IterWhile(_, _)
IterWhile(st, k) ==
    IF st.panicked \/ ~(Len(st.bytes) >= 1) THEN st
    ELSE IF k = 0 THEN IterNext(st)
    ELSE IterWhile(IterWhile(st, k - 1), k - 1)

\* txt.rs lines 17-26 and 32-36: iter() and the calls of next() until None
TxtIter(bytes) ==
    LET end == IterWhile([bytes |-> bytes, segs |-> <<>>, panicked |-> FALSE],
                         Fuel(Len(bytes)))
    IN  IF end.panicked THEN Panicked ELSE Returned(end.segs)

\* mod.rs lines 71-84: RData::parse.  The decoders of OtherKinds are not
\* among the source files: their arm is kept, their result is only a tag.
RDataParse(typ, rdata) ==
    CASE typ = "A" -> AParse(rdata)
      [] typ = "TXT" -> TxtParse(rdata)
      [] typ \in OtherKinds -> [tag |-> typ]
      [] OTHER -> [tag |-> "Unknown", typ |-> typ, bytes |-> rdata]

\* mod.rs lines 89-102: RData::type_code
TypeCode(v) ==
    IF v.tag = "Unknown" THEN Panicked ELSE Returned(v.tag)

\* mod.rs lines 105-118: RData::rdata_length
RDataLength(v) ==
    CASE v.tag = "A" -> Returned(ALength(v))
      [] v.tag = "TXT" -> Returned(TxtLength(v))
      [] v.tag = "Unknown" -> Panicked

\* mod.rs lines 121-134: RData::to_bytes
RDataToBytes(v) ==
    CASE v.tag = "A" -> Returned(AToBytes(v))
      [] v.tag = "TXT" -> Returned(TxtToBytes(v))
      [] v.tag = "Unknown" -> Panicked

(***************************************************************************)
(* The life of one RData value: it is made (decoded by RData::parse, or    *)
(* built from an address or from a string), then the methods of the union  *)
(* are called on it, and what to_bytes returned is decoded again.          *)
(***************************************************************************)
\* the types given to RData::parse: those whose handling is in the source files
ParseTypes == Types \ OtherKinds

RDataBytes == {0, 1, 255}

\* a string of n bytes that differ from their neighbours
Text(n) == [i \in 1..n |-> 97 + (i % 7)]

\* the lengths of the long strings given to from_str: around one and two
\* segments, and the shortest string whose record is 65536 bytes
LongTexts == {Text(n) : n \in {254, 255, 256, 300, 510, 511, 65280}}

Strings == BoundedSeq({97, 98}, MaxStr) \cup LongTexts

Addresses == {<<0, 0, 0, 0>>, <<128, 8, 255, 16>>, <<255, 255, 255, 255>>}

HasValue == rd_val.tag \in {"A", "TXT", "Unknown"}

\* RData::parse is called
MakeParse ==
    /\ rd_src = "none"
    /\ \E typ \in ParseTypes, rdata \in BoundedSeq(RDataBytes, MaxRData) :
          /\ rd_typ' = typ
          /\ rd_in' = rdata
          /\ rd_val' = RDataParse(typ, rdata)
    /\ rd_src' = "parse"
    /\ UNCHANGED <<rd_code, rd_len, rd_out, rd_segs, rd_back, rd_back_segs>>
    /\ UNCHANGED <<scanVars, bVars>>

\* RData::A(a::Record(address)) is built, as a.rs lines 40-41 do
MakeA ==
    /\ rd_src = "none"
    /\ \E addr \in Addresses : rd_val' = [tag |-> "A", addr |-> addr]
    /\ rd_src' = "new_a"
    /\ UNCHANGED <<rd_typ, rd_in, rd_code, rd_len, rd_out, rd_segs, rd_back,
                   rd_back_segs>>
    /\ UNCHANGED <<scanVars, bVars>>

\* RData::TXT(txt::Record::from_str(s)) is built
MakeTxt ==
    /\ rd_src = "none"
    /\ \E s \in Strings :
          /\ rd_in' = s
          /\ rd_val' = FromStr(s)
    /\ rd_src' = "from_str"
    /\ UNCHANGED <<rd_typ, rd_code, rd_len, rd_out, rd_segs, rd_back, rd_back_segs>>
    /\ UNCHANGED <<scanVars, bVars>>

CallTypeCode ==
    /\ HasValue
    /\ rd_code = NotCalled
    /\ rd_code' = TypeCode(rd_val)
    /\ UNCHANGED <<rd_src, rd_typ, rd_in, rd_val, rd_len, rd_out, rd_segs, rd_back,
                   rd_back_segs>>
    /\ UNCHANGED <<scanVars, bVars>>

CallRDataLength ==
    /\ HasValue
    /\ rd_len = NotCalled
    /\ rd_len' = RDataLength(rd_val)
    /\ UNCHANGED <<rd_src, rd_typ, rd_in, rd_val, rd_code, rd_out, rd_segs, rd_back,
                   rd_back_segs>>
    /\ UNCHANGED <<scanVars, bVars>>

CallToBytes ==
    /\ HasValue
    /\ rd_out = NotCalled
    /\ rd_out' = RDataToBytes(rd_val)
    /\ UNCHANGED <<rd_src, rd_typ, rd_in, rd_val, rd_code, rd_len, rd_segs, rd_back,
                   rd_back_segs>>
    /\ UNCHANGED <<scanVars, bVars>>

\* the segments of a TXT record are collected
CallIter ==
    /\ rd_val.tag = "TXT"
    /\ rd_segs = NotCalled
    /\ rd_segs' = TxtIter(rd_val.bytes)
    /\ UNCHANGED <<rd_src, rd_typ, rd_in, rd_val, rd_code, rd_len, rd_out, rd_back,
                   rd_back_segs>>
    /\ UNCHANGED <<scanVars, bVars>>

\* the bytes to_bytes returned are decoded under the type type_code returned
ParseBack ==
    /\ rd_code.res = "Ok"
    /\ rd_out.res = "Ok"
    /\ rd_back = NoValue
    /\ rd_back' = RDataParse(rd_code.v, rd_out.v)
    /\ UNCHANGED <<rd_src, rd_typ, rd_in, rd_val, rd_code, rd_len, rd_out, rd_segs,
                   rd_back_segs>>
    /\ UNCHANGED <<scanVars, bVars>>

\* the segments of the record decoded again are collected
IterBack ==
    /\ rd_back.tag = "TXT"
    /\ rd_back_segs = NotCalled
    /\ rd_back_segs' = TxtIter(rd_back.bytes)
    /\ UNCHANGED <<rd_src, rd_typ, rd_in, rd_val, rd_code, rd_len, rd_out, rd_segs,
                   rd_back>>
    /\ UNCHANGED <<scanVars, bVars>>

InitRData ==
    /\ name = <<>>
    /\ data = <<>>
    /\ original = <<>>
    /\ pc = "idle"
    /\ Idle
    /\ RDIdle
    /\ BIdle

NextRData ==
    \/ MakeParse
    \/ MakeA
    \/ MakeTxt
    \/ CallTypeCode
    \/ CallRDataLength
    \/ CallToBytes
    \/ CallIter
    \/ ParseBack
    \/ IterBack

SpecRData == InitRData /\ [][NextRData]_vars

(***************************************************************************)
(* The message builder, src/src/builder.rs.  A Vec of entries is a record  *)
(* [pre, items]: pre copies of one filler entry, then the entries of       *)
(* items; a list the calls of a run extend is long only in its filler.     *)
(***************************************************************************)
VLen(l) == l.pre + Len(l.items)

\* Vec::push
Push(l, x) == [l EXCEPT !.items = Append(@, x)]

EmptyVec == [pre |-> 0, items |-> <<>>]

\* the largest value of the u16 counts of the header
U16Max == 65535

\* builder.rs line 93: the count at which question refuses
QuestionLimit == 65535

\* builder.rs lines 65-80: the Header Builder::new makes
NewHeader(id, recursion) ==
    [id |-> id, query |-> TRUE, opcode |-> "StandardQuery",
     authoritative |-> FALSE, truncated |-> FALSE,
     recursion_desired |-> recursion, recursion_available |-> FALSE,
     authenticated_data |-> FALSE, checking_disabled |-> FALSE,
     response_code |-> "NoError",
     questions |-> 0, answers |-> 0, nameservers |-> 0, additional |-> 0]

\* Header::write, which is not among the source files: the 12 bytes of a
\* query header, as the tests of builder.rs lines 142-167 show them: the id,
\* the flags byte holding recursion_desired, a zero byte, the four counts
HeaderWrite(h) ==
    <<h.id \div 256, h.id % 256, IF h.recursion_desired THEN 1 ELSE 0, 0,
      h.questions \div 256, h.questions % 256,
      h.answers \div 256, h.answers % 256,
      h.nameservers \div 256, h.nameservers % 256,
      h.additional \div 256, h.additional % 256>>

\* WriteBytesExt::write_u16::<BigEndian>
WriteU16(n) == <<n \div 256, n % 256>>

\* builder.rs lines 125-133: Builder::write_name; "panic" when the
\* assertion of line 127 fails
WriteName(s) ==
    LET parts == Split(s)
    IN  IF \E i \in 1..Len(parts) : ~(Len(parts[i]) < LabelLimit)
        THEN [res |-> "panic", bytes |-> <<>>]
        ELSE [res |-> "Ok", bytes |-> EncodeParts(parts) \o <<0>>]

\* `type_code as u16`: a.rs line 11, txt.rs line 62
TypeNumber(typ) == CASE typ = "A" -> 1 [] typ = "TXT" -> 16

\* builder.rs lines 40-41: question.qclass as u16 | prefer_unicast
ClassWithFlag(qclass, prefer_unicast) ==
    IF prefer_unicast THEN (qclass % 32768) + 32768 ELSE qclass

\* builder.rs lines 38-41: the bytes one question adds to buf
QuestionBytes(q) ==
    LET n == WriteName(q.qname)
    IN  IF n.res = "panic" THEN Panicked
        ELSE Returned(n.bytes \o WriteU16(q.qtype)
                          \o WriteU16(ClassWithFlag(q.qclass, q.prefer_unicast)))

\* builder.rs lines 45-54: the bytes one answer adds to buf; the name is the
\* string Name::from_string kept (name.rs lines 101-103 and 160-164)
AnswerBytes(a) ==
    LET n == WriteName(a.name)
        code == TypeCode(a.data)
        len == RDataLength(a.data)
        bytes == RDataToBytes(a.data)
    IN  IF n.res = "panic" \/ code.res = "panic" \/ len.res = "panic"
               \/ bytes.res = "panic"
        THEN Panicked
        ELSE Returned(n.bytes \o WriteU16(TypeNumber(code.v)) \o WriteU16(a.cls)
                          \o ToBeBytes(a.ttl) \o WriteU16(len.v) \o bytes.v)

\* builder.rs lines 37-42 and 44-55: a loop over a list, each entry's bytes
\* appended to buf
RECURSIVE AppendAll(_, _)
AppendAll(buf, encoded) ==
    IF encoded = <<>> THEN Returned(buf)
    ELSE IF encoded[1].res = "panic" THEN Panicked
    ELSE AppendAll(buf \o encoded[1].v, Tail(encoded))

\* builder.rs lines 32-58: Builder::build on lists without filler
BuildBytes(h, qs, as) ==
    AppendAll(HeaderWrite(h),
              [i \in 1..Len(qs) |-> QuestionBytes(qs[i])]
                  \o [i \in 1..Len(as) |-> AnswerBytes(as[i])])

\* the entry the long lists are filled with
FillerQuestion == [qname |-> <<97>>, prefer_unicast |-> FALSE, qtype |-> 1, qclass |-> 1]
FillerAnswer ==
    [name |-> <<97>>, cls |-> 1, data |-> [tag |-> "A", addr |-> <<0, 0, 0, 0>>],
     multicast_unique |-> FALSE, ttl |-> <<0, 0>>]

\* what the calls are given
QNames == {<<97>>, <<98, Dot, 97>>}
QTypes == {1, 33}
QClasses == {1}
AnswerData ==
    {[tag |-> "A", addr |-> <<128, 8, 255, 16>>], FromStr(<<97, 98>>),
     [tag |-> "Unknown", typ |-> "OPT", bytes |-> <<1>>]}
Ttls == {<<0, 300>>}

\* builder.rs lines 91-107: Builder::question
Question ==
    /\ b_panic = "none"
    /\ b_calls < MaxCalls
    /\ b_calls' = b_calls + 1
    /\ \E qname \in QNames, prefer_unicast \in BOOLEAN, qtype \in QTypes,
          qclass \in QClasses :
          IF head.questions = QuestionLimit
          THEN /\ b_panic' = "Too many questions"
               /\ UNCHANGED <<head, questions>>
          ELSE /\ questions' = Push(questions,
                                    [qname |-> qname, prefer_unicast |-> prefer_unicast,
                                     qtype |-> qtype, qclass |-> qclass])
               /\ head' = [head EXCEPT !.questions = @ + 1]
               /\ UNCHANGED b_panic
    /\ UNCHANGED <<answers, nameservers, additional, b_out>>
    /\ UNCHANGED <<scanVars, rdVars>>

\* builder.rs lines 110-123: Builder::answer.  `self.head.answers += 1` on a
\* u16 of 65535 overflows: the build with overflow checks panics there, the
\* record already pushed; the build without them wraps to 0.
Answer ==
    /\ b_panic = "none"
    /\ b_calls < MaxCalls
    /\ b_calls' = b_calls + 1
    /\ \E qname \in QNames, rdata \in AnswerData, multicast_unique \in {FALSE},
          ttl \in Ttls :
          /\ answers' = Push(answers,
                             [name |-> qname, cls |-> 1, data |-> rdata,
                              multicast_unique |-> multicast_unique, ttl |-> ttl])
          /\ IF head.answers = U16Max
             THEN \/ /\ b_panic' = "attempt to add with overflow"
                     /\ UNCHANGED head
                  \/ /\ head' = [head EXCEPT !.answers = 0]
                     /\ UNCHANGED b_panic
             ELSE /\ head' = [head EXCEPT !.answers = @ + 1]
                  /\ UNCHANGED b_panic
    /\ UNCHANGED <<questions, nameservers, additional, b_out>>
    /\ UNCHANGED <<scanVars, rdVars>>

\* builder.rs lines 32-58: Builder::build.  The model runs it on builders
\* whose lists hold no filler.
Build ==
    /\ b_panic = "none"
    /\ b_calls < MaxCalls
    /\ b_calls' = b_calls + 1
    /\ questions.pre = 0
    /\ answers.pre = 0
    /\ LET out == BuildBytes(head, questions.items, answers.items)
       IN  /\ b_out' = out
           /\ b_panic' = IF out.res = "panic" THEN "build" ELSE b_panic
    /\ UNCHANGED <<head, questions, answers, nameservers, additional>>
    /\ UNCHANGED <<scanVars, rdVars>>

\* builder.rs lines 64-88: Builder::new(id, recursion), and then nq calls of
\* question and na calls of answer with the filler entry, none of which
\* meets a limit: each adds its entry and one to its count
InitBuilder ==
    /\ name = <<>>
    /\ data = <<>>
    /\ original = <<>>
    /\ pc = "idle"
    /\ Idle
    /\ RDIdle
    /\ \E id \in {1573}, recursion \in BOOLEAN,
          nq \in {0, QuestionLimit - 1}, na \in {0, U16Max} :
          /\ head = [NewHeader(id, recursion) EXCEPT !.questions = nq, !.answers = na]
          /\ questions = [pre |-> nq, items |-> <<>>]
          /\ answers = [pre |-> na, items |-> <<>>]
    /\ nameservers = EmptyVec
    /\ additional = EmptyVec
    /\ b_out = NotCalled
    /\ b_panic = "none"
    /\ b_calls = 0

NextBuilder == Question \/ Answer \/ Build

SpecBuilder == InitBuilder /\ [][NextBuilder]_vars

(***************************************************************************)
(* Claims about Name::scan and Name::to_string.                            *)
(***************************************************************************)
\* Name::byte_len, lines 155-157
byte_len == Len(labels)

ScanErrors == {"UnexpectedEOF", "BadPointer", "UnknownLabelFormat", "LabelIsNotAscii"}

\* C1: for every pair of buffers, neither scan nor the to_string it runs ever
\* fails a bound check or an unwrap, and a finished call has returned Ok or
\* one of the four errors of the name codec.
C1_ScanNeverOutOfBounds ==
    /\ result # "panic"
    /\ pc = "done" => result \in {"Ok"} \cup ScanErrors
    /\ pc # "done" => result = "none"

\* C1: a scan that followed a pointer and returned a Name with a non-empty
\* string, from a `data` that is not a suffix of `original`.
C1_Witness ==
    /\ pc = "done"
    /\ result = "Ok"
    /\ hops # <<>>
    /\ str_val # <<>>
    /\ ~IsSuffixOf(data, original)

StrictlyDecreasing(s) == \A i \in 1..Len(s) - 1 : s[i + 1] < s[i]

\* C2: the target offsets of the pointers one scan follows are strictly
\* decreasing, so they number at most len(original), and every scan ends.
C2_ScanTerminates ==
    /\ [](StrictlyDecreasing(hops) /\ Len(hops) <= Len(original))
    /\ <>(pc = "done")

\* C2: a finished scan that followed two pointers.
C2_Witness == pc = "done" /\ Len(hops) >= 2

\* scan stands at a complete pointer of `original` that points at itself or
\* that this scan has already followed
AtLoopingPointer ==
    /\ pc = "loop"
    /\ byte # 0
    /\ IsSuffixOf(data, original)
    /\ IsPointerByte(byte)
    /\ ~PointerEOF(parse_data, pos)
    /\ \/ ReadOffset(parse_data, pos) = AbsPos(original, parse_data, pos)
       \/ AbsPos(original, parse_data, pos) \in followed

\* C3: with `data` a suffix of `original`, a scan that reaches a pointer
\* pointing at itself, or a pointer it has already followed, ends with
\* Err(BadPointer).
C3_LoopIsBadPointer == AtLoopingPointer ~> (pc = "done" /\ result = "BadPointer")

\* C3: a scan that came back, over two hops, to a pointer it had followed
\* and was refused there.
C3_Witness ==
    /\ pc = "done"
    /\ result = "BadPointer"
    /\ IsSuffixOf(data, original)
    /\ Len(hops) >= 2
    /\ AbsPos(original, parse_data, pos) \in followed

\* the position, walking the literal labels of d from p, of the first byte
\* that does not start a non-empty literal label
RECURSIVE FirstStop(_, _)
FirstStop(d, p) ==
    IF InBounds(d, p) /\ IsLabelByte(At(d, p)) /\ At(d, p) # 0
    THEN FirstStop(d, p + At(d, p) + 1)
    ELSE p

\* C5: the byte_len of a scanned Name is the index in `data` of the first
\* pointer plus 2 when a pointer was followed, else the index of the zero
\* terminator plus 1; it is between 1 and len(data).
C5_ByteLenIsOwnSpan ==
    (pc = "done" /\ result = "Ok") =>
        LET stop == FirstStop(data, 0)
        IN  /\ InBounds(data, stop)
            /\ hops # <<>> => IsPointerByte(At(data, stop)) /\ byte_len = stop + 2
            /\ hops = <<>> => At(data, stop) = 0 /\ byte_len = stop + 1
            /\ 1 <= byte_len
            /\ byte_len <= Len(data)

\* C5: a Name whose view is a label and the pointer after it, the scan
\* having ended at the place jumped to.
C5_Witness ==
    /\ pc = "done"
    /\ result = "Ok"
    /\ hops # <<>>
    /\ byte_len > 2

(***************************************************************************)
(* Claims about the round trip of a name.                                  *)
(***************************************************************************)
\* every label of the dotted name s is 1 to 62 bytes of ASCII
LiteralLabels(s) ==
    \A i \in 1..Len(Split(s)) :
        /\ Len(Split(s)[i]) >= 1
        /\ Len(Split(s)[i]) < LabelLimit
        /\ IsAscii(Split(s)[i])

\* C4 as stated: for any dotted name, encoding it and scanning the bytes
\* succeeds and the scanned Name's string is the name.
C4_AnyNameRoundTrips == pc = "done" => result = "Ok" /\ str_val = name

\* C4 as amended: for any dotted name whose labels are each 1 to 62 bytes of
\* ASCII, and for the empty name, encoding it and scanning the bytes
\* succeeds and the scanned Name's string is the name.
C4_LiteralLabelsRoundTrip ==
    (pc = "done" /\ (name = <<>> \/ LiteralLabels(name))) =>
        result = "Ok" /\ str_val = name

\* C4: a name of two labels that came back from the round trip.
C4_Witness ==
    /\ pc = "done"
    /\ result = "Ok"
    /\ LiteralLabels(name)
    /\ Len(Split(name)) >= 2
    /\ str_val = name

(***************************************************************************)
(* Claims about the RDATA union and its kinds.                             *)
(***************************************************************************)
\* the types RData::parse has no arm for, the placeholder kind apart
Undispatched == Types \ (OtherKinds \cup {"A", "TXT", "NSEC"})

\* C6: for every type with no decoder in the dispatch and every RDATA byte
\* string, RData::parse returns Unknown holding that type and those bytes,
\* and type_code, rdata_length and to_bytes on that value return the same
\* type, the length of the bytes and the same bytes.
C6_UnknownRoundTrips ==
    (rd_src = "parse" /\ rd_typ \in Undispatched) =>
        /\ rd_val = [tag |-> "Unknown", typ |-> rd_typ, bytes |-> rd_in]
        /\ rd_code # NotCalled => rd_code = Returned(rd_typ)
        /\ rd_len # NotCalled => rd_len = Returned(Len(rd_in))
        /\ rd_out # NotCalled => rd_out = Returned(rd_in)

\* C7: decoding under the type NSEC through RData::parse reaches
\* nsec::Record::parse and fails with its not-implemented signal; it never
\* returns the Unknown variant.
C7_NsecReachesPlaceholder ==
    (rd_src = "parse" /\ rd_typ = "NSEC") =>
        rd_val = NsecParse(rd_in) /\ rd_val.tag # "Unknown"

Min(a, b) == IF a < b THEN a ELSE b

\* s cut at successive 255-byte boundaries: every piece but the last is 255
\* bytes, the last is 1 to 255 bytes, and the pieces concatenate to s
Chunks(s) ==
    [k \in 1..((Len(s) + 254) \div 255) |->
        SubSeq(s, 255 * (k - 1) + 1, Min(255 * k, Len(s)))]

\* the stream of the length-prefixed 255-byte cuts of s: byte 256k+1 is the
\* length of cut k+1, and the 255 after it are the bytes of the cut
Prefixed(s) ==
    [i \in 1..(Len(s) + Len(Chunks(s))) |->
        IF (i - 1) % 256 = 0
        THEN Len(Chunks(s)[((i - 1) \div 256) + 1])
        ELSE s[i - 1 - ((i - 1) \div 256)]]

\* C8: for every string s, from_str(s) serializes to the length-prefixed
\* 255-byte cuts of s, and Txt::parse of those bytes succeeds and iterates
\* to the same segments in the same order.
C8_FromStrRoundTrips ==
    rd_src = "from_str" =>
        /\ rd_val.bytes = Prefixed(rd_in)
        /\ rd_out # NotCalled => rd_out = Returned(Prefixed(rd_in))
        /\ rd_segs # NotCalled => rd_segs = Returned(Chunks(rd_in))
        /\ rd_back # NoValue => rd_back.tag = "TXT"
        /\ rd_back_segs # NotCalled => rd_back_segs = Returned(Chunks(rd_in))

\* C9: for every A or TXT value that can be constructed, rdata_length()
\* equals the number of bytes to_bytes() returns.
C9_LengthMatchesBytes ==
    (rd_len.res = "Ok" /\ rd_out.res = "Ok") => rd_len.v = Len(rd_out.v)

(***************************************************************************)
(* Claims about the message builder.                                       *)
(***************************************************************************)
\* C10: after Builder::new and any calls of question, answer and build, the
\* header's questions count is the number of questions held, its answers
\* count is the number of answers held, the nameservers and additional
\* counts are 0 and their lists empty; a question call made with 65535
\* questions held aborts and adds nothing.
C10_CountsMatchLists ==
    /\ b_panic = "none" =>
          /\ head.questions = VLen(questions)
          /\ head.answers = VLen(answers)
          /\ head.nameservers = 0
          /\ head.additional = 0
          /\ VLen(nameservers) = 0
          /\ VLen(additional) = 0
    /\ b_panic = "Too many questions" =>
          /\ VLen(questions) = 65535
          /\ head.questions = 65535

\* the number a record type is sent as: A is 1, TXT 16, OPT 41
WireType(v) ==
    CASE v.tag = "A" -> 1
      [] v.tag = "TXT" -> 16
      [] v.tag = "Unknown" /\ v.typ = "OPT" -> 41

\* the RDATA of a value: the four octets of an address, the segments of a
\* text, the bytes an Unknown holds
WireRData(v) ==
    CASE v.tag = "A" -> v.addr
      [] v.tag = "TXT" -> v.bytes
      [] v.tag = "Unknown" -> v.bytes

\* a name in literal encoding: each label after its length, then a zero
WireName(s) ==
    LET parts == Split(s)
    IN  Flatten([i \in 1..Len(parts) |-> <<Len(parts[i])>> \o parts[i]]) \o <<0>>

\* one question on the wire: name, type, class with bit 0x8000 if and only
\* if prefer_unicast
WireQuestion(q) ==
    WireName(q.qname) \o <<q.qtype \div 256, q.qtype % 256>>
        \o <<(q.qclass \div 256) + (IF q.prefer_unicast THEN 128 ELSE 0),
             q.qclass % 256>>

\* one answer on the wire: name, type code, class, TTL, RDATA length, RDATA
WireAnswer(a) ==
    LET rdata == WireRData(a.data)
    IN  WireName(a.name)
            \o <<WireType(a.data) \div 256, WireType(a.data) % 256>>
            \o <<a.cls \div 256, a.cls % 256>>
            \o <<a.ttl[1] \div 256, a.ttl[1] % 256, a.ttl[2] \div 256, a.ttl[2] % 256>>
            \o <<Len(rdata) \div 256, Len(rdata) % 256>> \o rdata

\* the whole message: the header, the questions in order, the answers in order
WireMessage(h, qs, as) ==
    HeaderWrite(h) \o Flatten([i \in 1..Len(qs) |-> WireQuestion(qs[i])])
                   \o Flatten([i \in 1..Len(as) |-> WireAnswer(as[i])])

\* C11: for any interleaving of question and answer calls, build returns Ok
\* with exactly the 12-byte header, then every question in the order added
\* (literal-encoded name, 2-byte type, 2-byte class with bit 0x8000 set if
\* and only if prefer_unicast), then every answer in the order added (name,
\* type code, class, 4-byte TTL, 2-byte RDATA length, RDATA), big-endian,
\* with nothing after; and build leaves the builder unchanged.
C11_BuildEmitsAllEntries ==
    [][Build =>
          /\ b_out'.res = "Ok"
          /\ b_out'.v = WireMessage(head, questions.items, answers.items)
          /\ UNCHANGED <<head, questions, answers, nameservers, additional>>]_vars

(***************************************************************************)
(* Claims about the errors of Name::scan at a compression pointer.         *)
(***************************************************************************)
\* the smallest target offset this scan has followed, the length of
\* `original` before any pointer is followed
FollowedBound ==
    LET offs == {Len(original)} \cup {hops[i] : i \in DOMAIN hops}
    IN  CHOOSE m \in offs : \A x \in offs : m <= x

\* scan stands at a complete 2-byte pointer
AtCompletePointer ==
    /\ pc = "loop"
    /\ byte # 0
    /\ IsPointerByte(byte)
    /\ ~PointerEOF(parse_data, pos)

\* C12 as stated: a scan that reaches a complete pointer whose target offset
\* is not strictly less than the smallest target followed so far, the length
\* of `original` before any is followed, returns Err(BadPointer), a first
\* pointer at or beyond the end of `original` included.
C12_NonDescendingIsBadPointer ==
    [][(AtCompletePointer /\ ReadOffset(parse_data, pos) >= FollowedBound)
           => (pc' = "done" /\ result' = "BadPointer")]_vars

\* C12 amended: a complete pointer whose target lies at or beyond the end of
\* `original` makes scan return Err(UnexpectedEOF); one whose target lies
\* inside `original` and is not strictly less than the smallest target
\* followed so far makes it return Err(BadPointer).
C12_OutsideIsEOFElseBadPointer ==
    [][AtCompletePointer =>
          LET off == ReadOffset(parse_data, pos)
          IN  /\ off >= Len(original)
                    => (pc' = "done" /\ result' = "UnexpectedEOF")
              /\ (off < Len(original) /\ off >= FollowedBound)
                    => (pc' = "done" /\ result' = "BadPointer")]_vars

\* C12: a scan refused with BadPointer at a pointer leading forward of a
\* target it had followed.
C12_Witness ==
    /\ pc = "done"
    /\ result = "BadPointer"
    /\ hops # <<>>
    /\ ReadOffset(parse_data, pos) > hops[Len(hops)]
    /\ ReadOffset(parse_data, pos) < Len(original)

(***************************************************************************)
(* Claims about the string of a scanned Name.                              *)
(***************************************************************************)
\* the labels met along the chain that starts at position p of d: the
\* literal labels, and past a pointer the labels of its target
RECURSIVE ChainLabels(_, _, _)
ChainLabels(d, p, orig) ==
    LET b == At(d, p)
    IN  IF b = 0 THEN <<>>
        ELSE IF IsPointerByte(b)
        THEN ChainLabels(SliceFrom(orig, ReadOffset(d, p)), 0, orig)
        ELSE <<Slice(d, p + 1, p + b + 1)>> \o ChainLabels(d, p + b + 1, orig)

\* labels joined by single '.' characters
RECURSIVE Joined(_)
Joined(ls) ==
    IF ls = <<>> THEN <<>>
    ELSE IF Len(ls) = 1 THEN ls[1]
    ELSE ls[1] \o <<Dot>> \o Joined(Tail(ls))

\* C13: whenever Name::scan succeeds, the string of the returned Name is the
\* non-empty labels met along the chain, literal and reached through
\* pointers, in order, joined by single '.' characters, with no leading,
\* trailing or doubled separator; a pointer landing on a zero terminator or
\* on another pointer adds no '.'.
C13_StringIsLabelsJoined ==
    (pc = "done" /\ result = "Ok")
        => str_val = Joined(ChainLabels(data, 0, original))

====
